---- MODULE Spec2Model ----
(***************************************************************************)
(* Xendit payment provider for Medusa: the webhook routes, the status      *)
(* mappers, the provider service facade and the webhook dispatcher.        *)
(*                                                                         *)
(* The repository holds the provider in three variants:                    *)
(*   "request"  service.ts lines 1-542    (Payments API v3)                *)
(*   "invoice"  service.ts lines 544-1133 (Payment Link / Invoice API)     *)
(*   "legacy"   unnamed/part_001          (Payments API v3, earlier form)  *)
(* and the webhook route in two variants:                                  *)
(*   "invoice"  api/webhooks/xendit/route.ts                               *)
(*   "event"    unnamed/part_003                                           *)
(***************************************************************************)
EXTENDS Integers, Sequences, FiniteSets, TLC

VARIABLES
    flavour,    \* which variant of XenditProviderService is registered
    env,        \* process.env.XENDIT_WEBHOOK_TOKEN
    options,    \* this.options_: the provider options given at construction
    http,       \* the webhook request handled last and the response it got
    gateway,    \* gateway side: the status of every intent id
    call,       \* the service call made last: its HTTP calls and its outcome
    clock,      \* Date.now()
    inflight    \* the calls being handled side by side, each with its frame

vars == <<flavour, env, options, http, gateway, call, clock, inflight>>

Flavours == {"request", "invoice", "legacy"}

-----------------------------------------------------------------------------
(* JavaScript values *)

\* the value of a property that is not there
undefined == "<undefined>"

\* if (v): neither undefined nor the empty string
Truthy(v) == v # undefined /\ v # ""

-----------------------------------------------------------------------------
(* Webhook routes *)

Tokens == {undefined, "", "tok_a", "tok_b"}

RouteVariants == {"invoice", "event"}

\* A request: `body` says whether req.body is an object; the other fields
\* are the properties the two routes read from it (data: whether
\* payload.data is an object, data_id: payload.data.id) and the
\* x-callback-token header.
Requests ==
    [ body : BOOLEAN,
      id : {undefined, "inv_1"},
      status : {undefined, "", "PAID", "PENDING"},
      event : {undefined, "payment.capture"},
      data : BOOLEAN,
      data_id : {undefined, "pay_1"},
      callbackToken : Tokens ]

Response(status, log) == [status |-> status, log |-> log]

\* one line handed to the logger
Log(level, text) == <<level, text>>

\* route.ts POST, with the token comparison left out (a plausible slip)
POST_NoCompare(req, webhookToken) ==
    IF ~req.body
    THEN Response(500, <<Log("error", "Error processing Xendit webhook")>>)
    ELSE
    LET received == <<Log("info", "webhook received")>> IN
    IF Truthy(webhookToken) /\ ~Truthy(req.callbackToken)
    THEN Response(401, received \o <<Log("warn", "missing x-callback-token header")>>)
    ELSE
    LET authed == IF Truthy(webhookToken)
                  THEN received
                  ELSE received \o <<Log("warn", "SECURITY WARNING")>> IN
    IF ~Truthy(req.id) \/ ~Truthy(req.status)
    THEN Response(400, authed \o <<Log("error", "invalid payload structure")>>)
    ELSE Response(200, authed \o <<Log("info", "webhook verified")>>)

\* route.ts POST: the invoice-style webhook handler
POST(req, webhookToken) ==
    \* payload.id on a body that is no object throws inside the try block
    IF ~req.body
    THEN Response(500, <<Log("error", "Error processing Xendit webhook")>>)
    ELSE
    LET received == <<Log("info", "webhook received")>> IN
    IF Truthy(webhookToken) /\ ~Truthy(req.callbackToken)
    THEN Response(401, received \o <<Log("warn", "missing x-callback-token header")>>)
    ELSE IF Truthy(webhookToken) /\ req.callbackToken # webhookToken
    THEN Response(401, received \o <<Log("warn", "invalid signature")>>)
    ELSE
    LET authed == IF Truthy(webhookToken)
                  THEN received
                  ELSE received \o <<Log("warn", "SECURITY WARNING")>> IN
    IF ~Truthy(req.id) \/ ~Truthy(req.status)
    THEN Response(400, authed \o <<Log("error", "invalid payload structure")>>)
    ELSE Response(200, authed \o <<Log("info", "webhook verified")>>)

\* part_003 POST: the event-style webhook handler
POST_part_003(req, webhookToken) ==
    \* payload.data on a body that is no object throws inside the try block
    IF ~req.body
    THEN Response(500, <<Log("error", "Error processing Xendit webhook")>>)
    ELSE
    LET received == <<Log("info", "webhook received")>> IN
    IF Truthy(webhookToken) /\ ~Truthy(req.callbackToken)
    THEN Response(401, received \o <<Log("warn", "missing x-callback-token header")>>)
    ELSE IF Truthy(webhookToken) /\ req.callbackToken # webhookToken
    THEN Response(401, received \o <<Log("warn", "invalid signature")>>)
    ELSE
    LET authed == IF Truthy(webhookToken)
                  THEN received
                  ELSE received \o <<Log("warn", "token not configured")>> IN
    IF ~Truthy(req.event) \/ ~req.data
    THEN Response(400, authed \o <<Log("error", "invalid payload structure")>>)
    ELSE Response(200, authed \o <<Log("info", "webhook verified")>>)

\* GET of either route
GET == Response(405, <<>>)

NoRequest ==
    [ body |-> FALSE, id |-> undefined, status |-> undefined,
      event |-> undefined, data |-> FALSE, data_id |-> undefined,
      callbackToken |-> undefined ]

HttpIdle ==
    [ method |-> "none", variant |-> "invoice", req |-> NoRequest,
      res |-> Response(0, <<>>) ]

HandlePOST ==
    \E variant \in RouteVariants, req \in Requests :
        /\ http' = [ method |-> "POST", variant |-> variant, req |-> req,
                     res |-> IF variant = "invoice"
                             THEN POST(req, env)
                             ELSE POST_part_003(req, env) ]
        /\ UNCHANGED <<flavour, env, options, inflight, gateway, call, clock>>

HandleGET ==
    \E variant \in RouteVariants :
        /\ http' = [ method |-> "GET", variant |-> variant, req |-> NoRequest,
                     res |-> GET ]
        /\ UNCHANGED <<flavour, env, options, inflight, gateway, call, clock>>

-----------------------------------------------------------------------------
(* Claims about the webhook routes *)

\* the payload carries the fields the specification requires: the
\* event/status discriminator and the intent id
WellFormed(variant, req) ==
    /\ req.body
    /\ IF variant = "invoice"
       THEN Truthy(req.id) /\ Truthy(req.status)
       ELSE Truthy(req.event) /\ req.data /\ Truthy(req.data_id)

\* no secret is configured, or the header carries the configured secret
AuthPasses(req) == ~Truthy(env) \/ req.callbackToken = env

Warned(log) == \E i \in 1..Len(log) : log[i][1] = "warn"

AuthOutcome(variant, req, res) ==
    /\ (Truthy(env) /\ req.callbackToken = env /\ WellFormed(variant, req))
          => res.status = 200
    /\ (Truthy(env) /\ req.callbackToken # env) => res.status = 401
    /\ (~Truthy(env) /\ WellFormed(variant, req))
          => (res.status = 200 /\ Warned(res.log))

C2_Original ==
    (http.method = "POST" /\ http.req.body
        /\ ~WellFormed(http.variant, http.req))
        => http.res.status = 400

\* C3: a 200 answer implies that authentication passed and that the
\* discriminator and the intent id are present.
C3_AckOnlyAfterChecks ==
    (http.method = "POST" /\ http.res.status = 200)
        => (AuthPasses(http.req) /\ WellFormed(http.variant, http.req))

-----------------------------------------------------------------------------
(* Status mappers *)

\* the status labels of the two API styles
GatewayStatuses ==
    { "REQUIRES_ACTION", "PENDING", "SUCCEEDED", "PAID", "FAILED", "CANCELED",
      "EXPIRED" }

\* service.ts (payment-request variant) and part_001
mapXenditStatusToMedusa(status) ==
    CASE status = "SUCCEEDED" -> "AUTHORIZED"
      [] status = "REQUIRES_ACTION" -> "PENDING"
      [] status = "FAILED" -> "ERROR"
      [] status = "CANCELED" -> "CANCELED"
      [] status = "EXPIRED" -> "CANCELED"
      [] OTHER -> "PENDING"

\* mapInvoiceStatusToMedusa without its default branch taken for labels it
\* does not know: it reports them as errors
mapInvoiceStatusToMedusa_UnknownIsError(status) ==
    CASE status = "PAID" -> "AUTHORIZED"
      [] status = "PENDING" -> "PENDING"
      [] status = "EXPIRED" -> "CANCELED"
      [] OTHER -> "ERROR"

\* service.ts (invoice variant)
mapInvoiceStatusToMedusa(status) ==
    CASE status = "PAID" -> "AUTHORIZED"
      [] status = "PENDING" -> "PENDING"
      [] status = "EXPIRED" -> "CANCELED"
      [] OTHER -> "PENDING"

Mappers == {"mapXenditStatusToMedusa", "mapInvoiceStatusToMedusa"}

\* what a mapper may be handed: the labels, and values that are no label
MapperInputs == GatewayStatuses \cup {undefined, "", "paid", "SETTLED"}

ApplyMapper ==
    \E mapper \in Mappers, status \in MapperInputs :
        /\ call' = [ op |-> mapper, status |-> status,
                     out |-> IF mapper = "mapInvoiceStatusToMedusa"
                             THEN mapInvoiceStatusToMedusa(status)
                             ELSE mapXenditStatusToMedusa(status) ]
        /\ UNCHANGED <<flavour, env, options, inflight, http, gateway, clock>>

-----------------------------------------------------------------------------
(* The gateway and the HTTP exchange *)

\* the ids the gateway issues, in the order it issues them
IntentOrder == <<"pi_1", "pi_2">>

IntentIds == {IntentOrder[i] : i \in 1..Len(IntentOrder)}

Amounts == {10000}

NoReference == <<"none", 0, <<>>>>

NoIntent == [status |-> "ABSENT", amount |-> 0, reference_id |-> NoReference]

Exists(gw, id) == gw[id].status # "ABSENT"

\* statuses that the gateway still moves on from
NonTerminal == {"REQUIRES_ACTION", "PENDING"}

\* What the transport and the gateway do to one call, apart from the state
\* of the intent: nothing, a rejected fetch, a 2xx answer whose body does
\* not parse, or an error answer (with a body that parses or not).
NoFault ==
    [ kind |-> "none", status |-> 200, json |-> TRUE,
      error_code |-> undefined, retry_after |-> undefined ]

ErrorAnswer(status, error_code) ==
    [ NoFault EXCEPT !.kind = "http", !.status = status,
                     !.error_code = error_code ]

Faults ==
    { NoFault,
      [ NoFault EXCEPT !.kind = "network" ],
      [ NoFault EXCEPT !.kind = "http", !.json = FALSE ],
      [ NoFault EXCEPT !.kind = "http", !.status = 429, !.retry_after = "30" ],
      [ NoFault EXCEPT !.kind = "http", !.status = 500, !.json = FALSE ],
      ErrorAnswer(400, "API_VALIDATION_ERROR"),
      ErrorAnswer(401, "INVALID_API_KEY"),
      ErrorAnswer(404, "DATA_NOT_FOUND"),
      ErrorAnswer(500, "SERVER_ERROR") }

Snapshot(gw, id) ==
    [ id |-> id, status |-> gw[id].status, amount |-> gw[id].amount,
      reference_id |-> gw[id].reference_id ]

NoBody ==
    [ id |-> undefined, status |-> undefined, amount |-> 0,
      reference_id |-> NoReference ]

\* response.ok
ResponseOk(resp) == resp.status >= 200 /\ resp.status <= 299

-----------------------------------------------------------------------------
(* Gateway client *)

Ok(value) == [ok |-> TRUE, value |-> value]

Throw(error) == [ok |-> FALSE, error |-> error]

\* an error object: its type and the parts of its message
MedusaError(type, message) == [type |-> type, message |-> message]

\* reading a property of undefined
TypeError == MedusaError("TypeError", <<"Cannot read properties of undefined">>)

\* the error codes of an error body; undefined: the body carries none
ErrorCodes ==
    { undefined, "API_VALIDATION_ERROR", "INVALID_API_KEY", "DATA_NOT_FOUND",
      "SERVER_ERROR", "REQUEST_VALIDATION_FAILED" }

\* errorCode.includes("VALIDATION")
CodesWithVALIDATION == {"API_VALIDATION_ERROR", "REQUEST_VALIDATION_FAILED"}

\* the type of the error, or the TypeError of errorCode.includes on an
\* error body without error_code
mapXenditErrorToMedusaType(statusCode, errorCode) ==
    IF statusCode = 401 \/ errorCode = "API_VALIDATION_ERROR"
    THEN Ok("UNAUTHORIZED")
    ELSE IF statusCode = 404 THEN Ok("NOT_FOUND")
    ELSE IF statusCode = 400 THEN Ok("INVALID_DATA")
    ELSE IF errorCode = undefined THEN Throw(TypeError)
    ELSE IF errorCode \in CodesWithVALIDATION THEN Ok("INVALID_DATA")
    ELSE IF statusCode >= 500 THEN Ok("UNEXPECTED_STATE")
    ELSE Ok("INVALID_DATA")

\* service.ts, both variants: the error that handleApiError throws
handleApiError(resp) ==
    IF resp.status = 429
    THEN MedusaError("INVALID_DATA",
            <<"Xendit API rate limit exceeded. Please retry after",
              resp.retry_after>>)
    ELSE IF ~resp.json
    THEN MedusaError("INVALID_DATA", <<"Xendit API error", ToString(resp.status)>>)
    ELSE LET errorType == mapXenditErrorToMedusaType(resp.status, resp.error_code)
         IN  IF errorType.ok
             THEN MedusaError(errorType.value,
                              <<"Xendit API error", resp.error_code>>)
             ELSE errorType.error

\* part_001
handleApiError_part_001(resp) ==
    IF ~resp.json
    THEN MedusaError("INVALID_DATA", <<"Xendit API error", ToString(resp.status)>>)
    ELSE MedusaError("INVALID_DATA", <<"Xendit API error", resp.error_code>>)

\* fetch rejected, or response.json() rejected: a native error
FetchFailed == MedusaError("TypeError", <<"fetch failed">>)

JsonFailed == MedusaError("SyntaxError", <<"Unexpected token in JSON">>)

\* service.ts (payment-request variant, fl = "request") and part_001
\* (fl = "legacy")
retrievePaymentFromXendit(fl, paymentId, resp) ==
    IF resp.kind = "network" THEN Throw(FetchFailed)
    ELSE IF ~ResponseOk(resp)
    THEN IF resp.status = 404
         THEN Throw(MedusaError("NOT_FOUND",
                        <<"Payment request not found", paymentId>>))
         ELSE Throw(IF fl = "legacy" THEN handleApiError_part_001(resp)
                                     ELSE handleApiError(resp))
    ELSE IF ~resp.json THEN Throw(JsonFailed)
    ELSE Ok(resp.body)

\* service.ts (invoice variant)
retrieveInvoice(invoiceId, resp) ==
    IF resp.kind = "network" THEN Throw(FetchFailed)
    ELSE IF ~ResponseOk(resp)
    THEN IF resp.status = 404
         THEN Throw(MedusaError("NOT_FOUND", <<"Invoice not found", invoiceId>>))
         ELSE Throw(handleApiError(resp))
    ELSE IF ~resp.json THEN Throw(JsonFailed)
    ELSE Ok(resp.body)

buildError(message, error) ==
    MedusaError("INVALID_DATA", <<message>> \o error.message)

-----------------------------------------------------------------------------
(* The HTTP calls of the gateway client *)

IntentPath(fl) ==
    IF fl = "invoice" THEN "/v2/invoices/{id}" ELSE "/v3/payment_requests/{id}"

CreatePath(fl) ==
    IF fl = "invoice" THEN "/v2/invoices" ELSE "/v3/payment_requests"

HttpRequest(method, path, id, reference_id, amount) ==
    [ method |-> method, path |-> path, id |-> id,
      reference_id |-> reference_id, amount |-> amount ]

HttpGet(fl, id) == HttpRequest("GET", IntentPath(fl), id, NoReference, 0)

HttpExpire(id) ==
    HttpRequest("POST", "/v2/invoices/{id}/expire!", id, NoReference, 0)

\* this.apiUrl: part_001 takes it from the options, service.ts fixes it
apiUrl(fl, opts) ==
    IF fl = "legacy" /\ Truthy(opts.api_url) THEN opts.api_url
    ELSE "https://api.xendit.co"

\* the country and the capture method in the body of the creation call; an
\* invoice carries neither
Country(fl, opts) ==
    IF fl = "invoice" THEN undefined
    ELSE IF fl = "legacy" /\ ~Truthy(opts.default_country) THEN "ID"
    ELSE opts.default_country

CaptureMethod(fl, opts) ==
    LET configured == IF fl = "legacy" THEN opts.default_capture_method
                                       ELSE opts.capture_method
    IN  IF fl = "invoice" THEN undefined
        ELSE IF Truthy(configured) THEN configured
        ELSE "AUTOMATIC"

\* the creation call, with the base URL it is sent to
HttpCreate(fl, opts, reference_id, amount) ==
    [ url |-> apiUrl(fl, opts), country |-> Country(fl, opts),
      capture_method |-> CaptureMethod(fl, opts) ]
    @@ HttpRequest("POST", CreatePath(fl), undefined, reference_id, amount)

HttpRefund(id, reference_id, amount) ==
    HttpRequest("POST", "/refunds", id, reference_id, amount)

\* The gateway as one call meets it: its intents, what goes wrong with the
\* call, and the id and first status it gives an intent the call creates.
Gateway(gw, fault, newId, first) ==
    [gw |-> gw, fault |-> fault, newId |-> newId, first |-> first]

\* the gateway's intents after it has served `req`; a refund leaves the
\* intent as it is
Served(g, req) ==
    IF g.fault.kind # "none" \/ req.method = "GET" \/ req.path = "/refunds"
    THEN g.gw
    ELSE IF req.path = CreatePath("invoice") \/ req.path = CreatePath("request")
    THEN [g.gw EXCEPT ![g.newId] =
            [ status |-> g.first, amount |-> req.amount,
              reference_id |-> req.reference_id ]]
    ELSE IF Exists(g.gw, req.id) /\ g.gw[req.id].status \in NonTerminal
    THEN [g.gw EXCEPT ![req.id].status = "EXPIRED"]
    ELSE g.gw

RECURSIVE ServedAll(_, _)
ServedAll(g, reqs) ==
    IF reqs = <<>> THEN g.gw
    ELSE ServedAll([g EXCEPT !.gw = Served(g, Head(reqs))], Tail(reqs))

\* the refund the gateway answers a refund call with
Refund(req) ==
    [ id |-> "rfd_1", status |-> "SUCCEEDED", amount |-> req.amount,
      reference_id |-> req.reference_id ]

\* fetch(req): the answer of the gateway
Fetch(g, req) ==
    IF g.fault.kind # "none" THEN g.fault @@ [body |-> NoBody]
    ELSE IF req.method = "POST" /\ req.id = undefined
    THEN NoFault @@ [body |-> Snapshot(Served(g, req), g.newId)]
    ELSE IF ~Exists(g.gw, req.id)
    THEN ErrorAnswer(404, "DATA_NOT_FOUND") @@ [body |-> NoBody]
    ELSE IF req.path = "/refunds" THEN NoFault @@ [body |-> Refund(req)]
    ELSE NoFault @@ [body |-> Snapshot(Served(g, req), req.id)]

\* the outcome of a facade call and the HTTP calls it made
Made(outcome, requests) == outcome @@ [requests |-> requests]

EmptyObject == <<>>

-----------------------------------------------------------------------------
(* Provider service facade: payment-request variant (fl = "request",     *)
(* service.ts lines 1-542) and part_001 (fl = "legacy")                   *)

\* getPaymentStatus without its catch block
getPaymentStatus_Propagates(fl, paymentId, g) ==
    LET req == HttpGet(fl, paymentId)
        payment == retrievePaymentFromXendit(fl, paymentId, Fetch(g, req))
    IN  Made(IF payment.ok
             THEN Ok([ status |-> mapXenditStatusToMedusa(payment.value.status),
                       data |-> payment.value ])
             ELSE Throw(payment.error),
             <<req>>)

getPaymentStatus(fl, paymentId, g) ==
    LET req == HttpGet(fl, paymentId)
        payment == retrievePaymentFromXendit(fl, paymentId, Fetch(g, req))
    IN  Made(IF payment.ok
             THEN Ok([ status |-> mapXenditStatusToMedusa(payment.value.status),
                       data |-> payment.value ])
             ELSE Ok([ status |-> "ERROR", data |-> EmptyObject ]),
             <<req>>)

authorizePayment(fl, paymentId, g) ==
    LET req == HttpGet(fl, paymentId)
        payment == retrievePaymentFromXendit(fl, paymentId, Fetch(g, req))
    IN  Made(IF payment.ok
             THEN Ok([ status |-> mapXenditStatusToMedusa(payment.value.status),
                       data |-> [ id |-> payment.value.id,
                                  status |-> payment.value.status ] ])
             ELSE Throw(buildError("An error occurred in authorizePayment",
                                   payment.error)),
             <<req>>)

\* capturePayment that takes every retrieved payment as captured
capturePayment_AnyStatus(fl, paymentId, g) ==
    LET req == HttpGet(fl, paymentId)
        payment == retrievePaymentFromXendit(fl, paymentId, Fetch(g, req))
    IN  Made(IF payment.ok
             THEN Ok([ data |-> [ id |-> payment.value.id,
                                  status |-> payment.value.status ] ])
             ELSE Throw(buildError("An error occurred in capturePayment",
                                   payment.error)),
             <<req>>)

capturePayment(fl, paymentId, g) ==
    LET req == HttpGet(fl, paymentId)
        payment == retrievePaymentFromXendit(fl, paymentId, Fetch(g, req))
    IN  Made(IF payment.ok
             THEN IF payment.value.status = "SUCCEEDED"
                  THEN Ok([ data |-> [ id |-> payment.value.id,
                                       status |-> payment.value.status ] ])
                  ELSE Throw(buildError("An error occurred in capturePayment",
                          buildError("Payment not ready for capture",
                              MedusaError("Error",
                                 <<"Payment status", payment.value.status>>))))
             ELSE Throw(buildError("An error occurred in capturePayment",
                                   payment.error)),
             <<req>>)

cancelPayment(fl, paymentId, g) ==
    LET req == HttpGet(fl, paymentId)
        payment == retrievePaymentFromXendit(fl, paymentId, Fetch(g, req))
    IN  Made(IF payment.ok
             THEN Ok([ data |-> [ id |-> payment.value.id,
                                  status |-> payment.value.status ] ])
             ELSE Throw(buildError("An error occurred in cancelPayment",
                                   payment.error)),
             <<req>>)

\* retrievePayment that reports the captured amount of the payment, which
\* is 0 until it is captured, as its amount
retrievePayment_CapturedAmount(fl, paymentId, g) ==
    LET req == HttpGet(fl, paymentId)
        payment == retrievePaymentFromXendit(fl, paymentId, Fetch(g, req))
    IN  Made(IF payment.ok
             THEN Ok([ data |-> [ id |-> payment.value.id,
                                  status |-> payment.value.status,
                                  amount |-> 0 ] ])
             ELSE Throw(payment.error),
             <<req>>)

retrievePayment(fl, paymentId, g) ==
    LET req == HttpGet(fl, paymentId)
        payment == retrievePaymentFromXendit(fl, paymentId, Fetch(g, req))
    IN  Made(IF payment.ok
             THEN Ok([ data |-> [ id |-> payment.value.id,
                                  status |-> payment.value.status,
                                  amount |-> payment.value.amount ] ])
             ELSE Throw(payment.error),
             <<req>>)

-----------------------------------------------------------------------------
(* Provider service facade: invoice variant (service.ts lines 544-1133) *)

expireInvoice(invoiceId, resp) ==
    IF resp.kind = "network" THEN Throw(FetchFailed)
    ELSE IF ~ResponseOk(resp) THEN Throw(handleApiError(resp))
    ELSE IF ~resp.json THEN Throw(JsonFailed)
    ELSE Ok(resp.body)

getPaymentStatus_invoice(invoiceId, g) ==
    LET req == HttpGet("invoice", invoiceId)
        invoice == retrieveInvoice(invoiceId, Fetch(g, req))
    IN  Made(IF invoice.ok
             THEN Ok([ status |-> mapInvoiceStatusToMedusa(invoice.value.status),
                       data |-> invoice.value ])
             ELSE Ok([ status |-> "ERROR", data |-> EmptyObject ]),
             <<req>>)

\* authorizePayment that expires the invoice it looks at
authorizePayment_invoice_Expires(invoiceId, g) ==
    LET req == HttpGet("invoice", invoiceId)
        expire == HttpExpire(invoiceId)
        invoice == retrieveInvoice(invoiceId, Fetch(g, req))
    IN  Made(IF invoice.ok
             THEN Ok([ status |-> mapInvoiceStatusToMedusa(invoice.value.status),
                       data |-> [ id |-> invoice.value.id,
                                  status |-> invoice.value.status ] ])
             ELSE Throw(buildError("An error occurred in authorizePayment",
                                   invoice.error)),
             <<req, expire>>)

authorizePayment_invoice(invoiceId, g) ==
    LET req == HttpGet("invoice", invoiceId)
        invoice == retrieveInvoice(invoiceId, Fetch(g, req))
    IN  Made(IF invoice.ok
             THEN Ok([ status |-> mapInvoiceStatusToMedusa(invoice.value.status),
                       data |-> [ id |-> invoice.value.id,
                                  status |-> invoice.value.status ] ])
             ELSE Throw(buildError("An error occurred in authorizePayment",
                                   invoice.error)),
             <<req>>)

capturePayment_invoice(invoiceId, g) ==
    LET req == HttpGet("invoice", invoiceId)
        invoice == retrieveInvoice(invoiceId, Fetch(g, req))
    IN  Made(IF invoice.ok
             THEN IF invoice.value.status = "PAID"
                  THEN Ok([ data |-> [ id |-> invoice.value.id,
                                       status |-> invoice.value.status ] ])
                  ELSE Throw(buildError("An error occurred in capturePayment",
                          buildError("Payment not ready for capture",
                              MedusaError("Error",
                                 <<"Invoice status", invoice.value.status>>))))
             ELSE Throw(buildError("An error occurred in capturePayment",
                                   invoice.error)),
             <<req>>)

\* the invoice variant's cancelPayment, retrieving the invoice as the
\* payment-request variant does instead of expiring it
cancelPayment_invoice_RetrieveOnly(invoiceId, g) ==
    LET req == HttpGet("invoice", invoiceId)
        invoice == retrieveInvoice(invoiceId, Fetch(g, req))
    IN  Made(IF invoice.ok
             THEN Ok([ data |-> [ id |-> invoice.value.id,
                                  status |-> invoice.value.status ] ])
             ELSE Throw(buildError("An error occurred in cancelPayment",
                                   invoice.error)),
             <<req>>)

cancelPayment_invoice(invoiceId, g) ==
    LET req == HttpExpire(invoiceId)
        invoice == expireInvoice(invoiceId, Fetch(g, req))
    IN  Made(IF invoice.ok
             THEN Ok([ data |-> [ id |-> invoice.value.id,
                                  status |-> invoice.value.status ] ])
             ELSE Throw(buildError("An error occurred in cancelPayment",
                                   invoice.error)),
             <<req>>)

retrievePayment_invoice(invoiceId, g) ==
    LET req == HttpGet("invoice", invoiceId)
        invoice == retrieveInvoice(invoiceId, Fetch(g, req))
    IN  Made(IF invoice.ok
             THEN Ok([ data |-> [ id |-> invoice.value.id,
                                  status |-> invoice.value.status,
                                  amount |-> invoice.value.amount ] ])
             ELSE Throw(invoice.error),
             <<req>>)

-----------------------------------------------------------------------------
(* initiatePayment and its reference id *)

\* the digits that Math.random().toString(36) may show after "0."
Digits == {"a", "b"}

MaxDigits == 6

\* Math.random(), as the digits of its base-36 expansion (none for 0)
Randoms == UNION { [1..n -> Digits] : n \in 0..MaxDigits }

\* Math.random().toString(36), as the sequence of its characters
toString36(random) ==
    IF random = <<>> THEN <<"0">> ELSE <<"0", ".">> \o random

\* str.substring(start)
substring(str, start) == SubSeq(str, start + 1, Len(str))

\* `medusa_${Date.now()}_${Math.random().toString(36).substring(7)}`
ReferenceId(now, random) ==
    <<"medusa", now, substring(toString36(random), 7)>>

\* createPaymentRequest (service.ts, part_001) and createInvoice
createIntent(fl, resp) ==
    IF resp.kind = "network" THEN Throw(FetchFailed)
    ELSE IF ~ResponseOk(resp)
    THEN Throw(IF fl = "legacy" THEN handleApiError_part_001(resp)
                                ELSE handleApiError(resp))
    ELSE IF ~resp.json THEN Throw(JsonFailed)
    ELSE Ok(resp.body)

\* all three variants: they differ in the body of the creation call, of
\* which the model keeps the reference (external) id and the amount
initiatePayment(fl, opts, amount, now, random, g) ==
    LET req == HttpCreate(fl, opts, ReferenceId(now, random), amount)
        response == createIntent(fl, Fetch(g, req))
    IN  Made(IF response.ok
             THEN Ok([ id |-> response.value.id,
                       data |-> [ id |-> response.value.id,
                                  reference_id |-> response.value.reference_id,
                                  status |-> response.value.status,
                                  amount |-> response.value.amount ] ])
             ELSE Throw(buildError("An error occurred in initiatePayment",
                                   response.error)),
             <<req>>)

-----------------------------------------------------------------------------
(* refundPayment, updatePayment and deletePayment, all three variants *)

\* createRefund
createRefund(fl, resp) ==
    IF resp.kind = "network" THEN Throw(FetchFailed)
    ELSE IF ~ResponseOk(resp)
    THEN Throw(IF fl = "legacy" THEN handleApiError_part_001(resp)
                                ELSE handleApiError(resp))
    ELSE IF ~resp.json THEN Throw(JsonFailed)
    ELSE Ok(resp.body)

\* `refund_${paymentId}_${Date.now()}`
RefundReferenceId(paymentId, now) == <<"refund", paymentId, now>>

refundPayment(fl, paymentId, amount, now, g) ==
    LET req == HttpRefund(paymentId, RefundReferenceId(paymentId, now), amount)
        refund == createRefund(fl, Fetch(g, req))
    IN  Made(IF refund.ok
             THEN Ok([ data |-> [ id |-> refund.value.id,
                                  status |-> refund.value.status,
                                  amount |-> refund.value.amount,
                                  refund_id |-> refund.value.id ] ])
             ELSE Throw(buildError("An error occurred in refundPayment",
                                   refund.error)),
             <<req>>)

\* updatePayment that refuses when the gateway holds the original intent
\* in a status that no longer changes
updatePayment_ChecksOriginal(fl, opts, paymentId, amount, now, random, g) ==
    IF Exists(g.gw, paymentId) /\ g.gw[paymentId].status \notin NonTerminal
    THEN Made(Throw(MedusaError("NOT_ALLOWED", <<"Payment cannot be updated">>)),
              <<HttpGet(fl, paymentId)>>)
    ELSE initiatePayment(fl, opts, amount, now, random, g)

\* updatePayment that expires the original intent before it creates the
\* new one
updatePayment_ExpiresOriginal(fl, opts, paymentId, amount, now, random, g) ==
    LET made == initiatePayment(fl, opts, amount, now, random, g)
    IN  Made([made EXCEPT !.requests = <<>>],
             <<HttpExpire(paymentId)>> \o made.requests)

\* input.data.id, the original intent, is not looked at
updatePayment(fl, opts, paymentId, amount, now, random, g) ==
    LET made == initiatePayment(fl, opts, amount, now, random, g)
    IN  IF made.ok THEN made
        ELSE Made(Throw(buildError("An error occurred in updatePayment",
                                   made.error)),
                  made.requests)

deletePayment(fl, paymentId, g) == cancelPayment(fl, paymentId, g)

deletePayment_invoice(invoiceId, g) == cancelPayment_invoice(invoiceId, g)

-----------------------------------------------------------------------------
(* Construction of the provider *)

ApiKeyRequired ==
    MedusaError("INVALID_ARGUMENT", <<"Xendit API key is required">>)

CountryRequired ==
    MedusaError("INVALID_ARGUMENT", <<"Xendit default_country is required">>)

\* static validateOptions(options)
validateOptions(fl, opts) ==
    IF ~Truthy(opts.api_key) THEN Throw(ApiKeyRequired)
    ELSE IF fl # "legacy" /\ ~Truthy(opts.default_country)
    THEN Throw(CountryRequired)
    ELSE Ok(undefined)

\* new XenditProviderService(container, options)
constructor(fl, opts) ==
    IF ~Truthy(opts.api_key) THEN Throw(ApiKeyRequired)
    ELSE IF fl # "legacy" /\ ~Truthy(opts.default_country)
    THEN Throw(CountryRequired)
    ELSE Ok([options_ |-> opts, apiUrl |-> apiUrl(fl, opts)])

\* the facade is called on a provider that was constructed
Constructed == constructor(flavour, options).ok

-----------------------------------------------------------------------------
(* Facade calls as steps *)

CallIdle == [op |-> "none"]

\* the intent id the gateway issues next (undefined when it has none left)
NextIntentId(gw) ==
    LET free == {i \in 1..Len(IntentOrder) : ~Exists(gw, IntentOrder[i])}
    IN  IF free = {} THEN undefined
        ELSE IntentOrder[CHOOSE i \in free : \A j \in free : i <= j]

\* the status the gateway gives a new intent
FirstStatus(fl) == IF fl = "invoice" THEN "PENDING" ELSE "REQUIRES_ACTION"

\* one facade call about an existing or unknown intent id
Call(op, id, fault, made) ==
    LET g == Gateway(gateway, fault, undefined, undefined) IN
    /\ Constructed
    /\ call' = [ op |-> op, id |-> id,
                 resp |-> Fetch(g, made.requests[1]), out |-> made ]
    /\ gateway' = ServedAll(g, made.requests)
    /\ UNCHANGED <<flavour, env, options, inflight, http, clock>>

GetPaymentStatus ==
    \E id \in IntentIds, fault \in Faults :
        LET g == Gateway(gateway, fault, undefined, undefined) IN
        Call("getPaymentStatus", id, fault,
             IF flavour = "invoice" THEN getPaymentStatus_invoice(id, g)
             ELSE getPaymentStatus(flavour, id, g))

AuthorizePayment ==
    \E id \in IntentIds, fault \in Faults :
        LET g == Gateway(gateway, fault, undefined, undefined) IN
        Call("authorizePayment", id, fault,
             IF flavour = "invoice" THEN authorizePayment_invoice(id, g)
             ELSE authorizePayment(flavour, id, g))

CapturePayment ==
    \E id \in IntentIds, fault \in Faults :
        LET g == Gateway(gateway, fault, undefined, undefined) IN
        Call("capturePayment", id, fault,
             IF flavour = "invoice" THEN capturePayment_invoice(id, g)
             ELSE capturePayment(flavour, id, g))

CancelPayment ==
    \E id \in IntentIds, fault \in Faults :
        LET g == Gateway(gateway, fault, undefined, undefined) IN
        Call("cancelPayment", id, fault,
             IF flavour = "invoice" THEN cancelPayment_invoice(id, g)
             ELSE cancelPayment(flavour, id, g))

RetrievePayment ==
    \E id \in IntentIds, fault \in Faults :
        LET g == Gateway(gateway, fault, undefined, undefined) IN
        Call("retrievePayment", id, fault,
             IF flavour = "invoice" THEN retrievePayment_invoice(id, g)
             ELSE retrievePayment(flavour, id, g))

InitiatePayment(amounts, randoms, faults) ==
    /\ Constructed
    /\ NextIntentId(gateway) # undefined
    /\ \E amount \in amounts, random \in randoms, fault \in faults :
        LET g == Gateway(gateway, fault, NextIntentId(gateway),
                         FirstStatus(flavour))
            made == initiatePayment(flavour, options, amount, clock, random, g)
        IN  /\ call' = [ op |-> "initiatePayment", id |-> g.newId,
                         amount |-> amount, random |-> random,
                         resp |-> Fetch(g, made.requests[1]), out |-> made ]
            /\ gateway' = ServedAll(g, made.requests)
    /\ UNCHANGED <<flavour, env, options, inflight, http, clock>>

RefundPayment ==
    \E id \in IntentIds, amount \in Amounts, fault \in Faults :
        LET g == Gateway(gateway, fault, undefined, undefined) IN
        Call("refundPayment", id, fault,
             refundPayment(flavour, id, amount, clock, g))

\* input.data.id is any intent id, known to the gateway or not
UpdatePayment(amounts, randoms, faults) ==
    /\ Constructed
    /\ NextIntentId(gateway) # undefined
    /\ \E id \in IntentIds, amount \in amounts, random \in randoms,
          fault \in faults :
        LET g == Gateway(gateway, fault, NextIntentId(gateway),
                         FirstStatus(flavour))
            made == updatePayment(flavour, options, id, amount, clock, random, g)
        IN  /\ call' = [ op |-> "updatePayment", id |-> id, newId |-> g.newId,
                         amount |-> amount, original |-> gateway[id].status,
                         resp |-> Fetch(g, made.requests[1]), out |-> made ]
            /\ gateway' = ServedAll(g, made.requests)
    /\ UNCHANGED <<flavour, env, options, inflight, http, clock>>

DeletePayment ==
    \E id \in IntentIds, fault \in Faults :
        LET g == Gateway(gateway, fault, undefined, undefined) IN
        Call("deletePayment", id, fault,
             IF flavour = "invoice" THEN deletePayment_invoice(id, g)
             ELSE deletePayment(flavour, id, g))

\* the gateway moves an intent on (the customer pays, the intent expires)
GatewayAdvance ==
    \E id \in IntentIds, status \in GatewayStatuses :
        /\ Exists(gateway, id)
        /\ gateway[id].status \in NonTerminal
        /\ status # gateway[id].status
        /\ gateway' = [gateway EXCEPT ![id].status = status]
        /\ call' = CallIdle
        /\ UNCHANGED <<flavour, env, options, inflight, http, clock>>

MaxClock == 1

\* time passes
Tick ==
    /\ clock < MaxClock
    /\ clock' = clock + 1
    /\ UNCHANGED <<flavour, env, options, inflight, http, gateway, call>>

-----------------------------------------------------------------------------
(* Claims about the status mappers and the facade *)

\* the mapping table of the specification
TableStatus(status) ==
    CASE status \in {"SUCCEEDED", "PAID"} -> "AUTHORIZED"
      [] status \in {"REQUIRES_ACTION", "PENDING"} -> "PENDING"
      [] status = "FAILED" -> "ERROR"
      [] status \in {"CANCELED", "EXPIRED"} -> "CANCELED"
      [] OTHER -> "PENDING"

\* the labels of each API style
RequestLabels ==
    {"REQUIRES_ACTION", "PENDING", "SUCCEEDED", "FAILED", "CANCELED", "EXPIRED"}

InvoiceLabels == {"PENDING", "PAID", "EXPIRED"}

HostStatuses == {"AUTHORIZED", "PENDING", "ERROR", "CANCELED"}

\* C4: on the labels of its own API style each mapper returns the table's
\* value, and on every other value it returns PENDING (it is total).
C4_StatusMapping ==
    /\ call.op = "mapXenditStatusToMedusa" =>
          call.out = (IF call.status \in RequestLabels
                      THEN TableStatus(call.status) ELSE "PENDING")
    /\ call.op = "mapInvoiceStatusToMedusa" =>
          call.out = (IF call.status \in InvoiceLabels
                      THEN TableStatus(call.status) ELSE "PENDING")

C4_Witness ==
    /\ call.op = "mapInvoiceStatusToMedusa"
    /\ call.status = "SETTLED"
    /\ call.out = "PENDING"

\* C5: every mapper returns the table's value on every row of the table,
\* so getPaymentStatus and authorizePayment report the table's value of the
\* retrieved status in either flavour.
C5_BothStylesSupported ==
    /\ (call.op \in Mappers /\ call.status \in GatewayStatuses)
          => call.out = TableStatus(call.status)
    /\ (call.op \in {"getPaymentStatus", "authorizePayment"}
          /\ call.resp.kind = "none")
          => call.out.value.status = TableStatus(call.resp.body.status)

\* the status that lets capturePayment succeed
SuccessStatus(fl) == IF fl = "invoice" THEN "PAID" ELSE "SUCCEEDED"

\* the error says that the payment is not ready and names the status
NotReady(error, status) ==
    /\ \E i \in 1..Len(error.message) :
          error.message[i] = "Payment not ready for capture"
    /\ error.message[Len(error.message)] = status

C6_Outcome ==
    call.op = "capturePayment" =>
        LET retrieved == call.resp.kind = "none"
            status == call.resp.body.status
        IN  /\ call.out.ok <=> (retrieved /\ status = SuccessStatus(flavour))
            /\ (retrieved /\ status # SuccessStatus(flavour))
                  => (~call.out.ok /\ NotReady(call.out.error, status))
            /\ call.out.requests = <<HttpGet(flavour, call.id)>>

\* C6: capturePayment succeeds exactly when the retrieved status is the
\* success value of the flavour; on every other retrieved status it fails
\* with the not-ready error naming that status; it issues one GET and leaves
\* the gateway's intents as they are.
C6_Capture ==
    /\ []C6_Outcome
    /\ [][call'.op = "capturePayment" => gateway' = gateway]_vars

C6_Witness ==
    /\ call.op = "capturePayment"
    /\ call.resp.kind = "none"
    /\ call.resp.body.status = "PENDING"
    /\ ~call.out.ok
    /\ NotReady(call.out.error, "PENDING")

\* C7: getPaymentStatus always returns: ERROR with empty data when the
\* retrieval fails in any way, the mapped status and the retrieved intent
\* when it succeeds.
C7_GetStatusNeverThrows ==
    call.op = "getPaymentStatus" =>
        /\ call.out.ok
        /\ call.resp.kind # "none" =>
              (call.out.value.status = "ERROR"
                  /\ call.out.value.data = EmptyObject)
        /\ call.resp.kind = "none" =>
              /\ call.out.value.status =
                    (IF flavour = "invoice"
                     THEN mapInvoiceStatusToMedusa(call.resp.body.status)
                     ELSE mapXenditStatusToMedusa(call.resp.body.status))
              /\ call.out.value.data = call.resp.body

C7_Witness ==
    /\ call.op = "getPaymentStatus"
    /\ call.resp.kind = "network"
    /\ call.out.ok
    /\ call.out.value.status = "ERROR"

\* C10: the reference ids of the intents that initiatePayment created are
\* pairwise distinct.
C10_UniqueReferenceIds ==
    \A i, j \in IntentIds :
        (i # j /\ Exists(gateway, i) /\ Exists(gateway, j))
            => gateway[i].reference_id # gateway[j].reference_id

-----------------------------------------------------------------------------
(* The webhook dispatcher *)

\* an optional number: <<>> when the property is not there, <<n>> otherwise
NoNumber == <<>>

Number(n) == <<n>>

\* a || b on optional numbers
OrElse(a, b) == IF a # NoNumber /\ a # Number(0) THEN a ELSE b

\* payload.data as the dispatchers read it. `data`: payload.data is an
\* object. Event style: event, `inner` (payload.data.data is an object),
\* payment_request_id and event_amount inside it. Invoice style: id,
\* status, amount, paid_amount.
NoPayload ==
    [ data |-> FALSE, event |-> undefined, inner |-> FALSE,
      payment_request_id |-> undefined, event_amount |-> NoNumber,
      id |-> undefined, status |-> undefined, amount |-> NoNumber,
      paid_amount |-> NoNumber ]

EventPayloads ==
    { [ NoPayload EXCEPT !.data = d, !.event = e, !.inner = i,
                         !.payment_request_id = r, !.event_amount = a ] :
        d \in BOOLEAN,
        e \in {undefined, "payment.capture", "payment.failed", "payment.pending"},
        i \in BOOLEAN, r \in {undefined, "pi_1"},
        a \in {NoNumber, Number(10000)} }

InvoicePayloads ==
    { [ NoPayload EXCEPT !.data = d, !.id = i, !.status = st,
                         !.amount = Number(10000), !.paid_amount = pa ] :
        d \in BOOLEAN, i \in {undefined, "pi_1"},
        st \in {undefined, "PAID", "EXPIRED", "PENDING", "SETTLED"},
        pa \in {NoNumber, Number(0), Number(9000)} }

Action(action, session_id, amount) ==
    [ action |-> action,
      data |-> [session_id |-> session_id, amount |-> amount] ]

NotSupported == [action |-> "NOT_SUPPORTED"]

\* the payment-request dispatcher, with payment.failed taken for a capture
getWebhookActionAndData_FailedAuthorizes(event) ==
    IF ~event.data THEN Throw(TypeError)
    ELSE IF ~Truthy(event.event) \/ ~event.inner THEN Ok(NotSupported)
    ELSE IF event.event \in {"payment.capture", "payment.failed"}
    THEN Ok(Action("AUTHORIZED", event.payment_request_id, event.event_amount))
    ELSE Ok(NotSupported)

\* service.ts, payment-request variant
getWebhookActionAndData(event) ==
    \* the first log line reads event.event before event is checked
    IF ~event.data THEN Throw(TypeError)
    ELSE IF ~Truthy(event.event) \/ ~event.inner THEN Ok(NotSupported)
    ELSE IF event.event = "payment.capture"
    THEN Ok(Action("AUTHORIZED", event.payment_request_id, event.event_amount))
    ELSE IF event.event = "payment.failed"
    THEN Ok(Action("FAILED", event.payment_request_id, event.event_amount))
    ELSE Ok(NotSupported)

\* service.ts, invoice variant
getWebhookActionAndData_invoice(invoiceEvent) ==
    \* the first log line reads invoiceEvent.status before invoiceEvent is
    \* checked
    IF ~invoiceEvent.data THEN Throw(TypeError)
    ELSE IF ~Truthy(invoiceEvent.id) \/ ~Truthy(invoiceEvent.status)
    THEN Ok(NotSupported)
    ELSE IF invoiceEvent.status = "PAID"
    THEN Ok(Action("AUTHORIZED", invoiceEvent.id,
                   OrElse(invoiceEvent.paid_amount, invoiceEvent.amount)))
    ELSE IF invoiceEvent.status = "EXPIRED"
    THEN Ok(Action("FAILED", invoiceEvent.id, invoiceEvent.amount))
    ELSE Ok(NotSupported)

\* part_001
getWebhookActionAndData_part_001(event) ==
    IF ~event.data THEN Throw(TypeError)
    ELSE IF event.event = "payment.capture"
    THEN IF ~event.inner THEN Throw(TypeError)
         ELSE Ok(Action("AUTHORIZED", event.payment_request_id,
                        event.event_amount))
    ELSE IF event.event = "payment.failed"
    THEN IF ~event.inner THEN Throw(TypeError)
         ELSE Ok(Action("FAILED", event.payment_request_id,
                        event.event_amount))
    ELSE Ok(NotSupported)

\* the payloads of the API style that the registered variant serves
Payloads(fl) == IF fl = "invoice" THEN InvoicePayloads ELSE EventPayloads

\* one webhook delivery handed to the provider
Deliver ==
    \E payload \in Payloads(flavour) :
        /\ call' = [ op |-> "getWebhookActionAndData", payload |-> payload,
                     out |-> CASE flavour = "request" ->
                                    getWebhookActionAndData(payload)
                               [] flavour = "invoice" ->
                                    getWebhookActionAndData_invoice(payload)
                               [] flavour = "legacy" ->
                                    getWebhookActionAndData_part_001(payload) ]
        /\ UNCHANGED <<flavour, env, options, inflight, http, gateway, clock>>

-----------------------------------------------------------------------------
(* Claims about the webhook dispatcher *)

\* the payload has the structure of its style: payload.data is an object
\* and carries the identifying field (event style: the inner data object;
\* invoice style: the invoice id)
Structured(fl, payload) ==
    /\ payload.data
    /\ IF fl = "invoice" THEN Truthy(payload.id) ELSE payload.inner

\* the event or status of the payload
Discriminator(fl, payload) ==
    IF fl = "invoice" THEN payload.status ELSE payload.event

\* C8: the dispatcher returns AUTHORIZED for payment.capture (invoice: PAID)
\* and FAILED for payment.failed (invoice: EXPIRED) on a payload that has
\* the structure of its style, each with the intent id and the amount of
\* the payload; for PENDING and every other event or status of a payload
\* whose data is there it returns NOT_SUPPORTED without data and without an
\* error; whatever it returns is one of the three actions.
C8_WebhookActions ==
    (call.op = "getWebhookActionAndData" /\ call.payload.data)
    =>
    LET payload == call.payload
        kind == Discriminator(flavour, payload)
        intent == IF flavour = "invoice" THEN payload.id
                  ELSE payload.payment_request_id
    IN  /\ call.out.ok =>
              call.out.value.action \in {"AUTHORIZED", "FAILED", "NOT_SUPPORTED"}
        /\ (Structured(flavour, payload) /\ kind \in {"payment.capture", "PAID"})
           => /\ call.out.ok
              /\ call.out.value.action = "AUTHORIZED"
              /\ call.out.value.data.session_id = intent
              /\ call.out.value.data.amount \in
                    IF flavour = "invoice"
                    THEN {payload.paid_amount, payload.amount} \ {NoNumber}
                    ELSE {payload.event_amount}
        /\ (Structured(flavour, payload) /\ kind \in {"payment.failed", "EXPIRED"})
           => /\ call.out.ok
              /\ call.out.value.action = "FAILED"
              /\ call.out.value.data.session_id = intent
              /\ call.out.value.data.amount =
                    (IF flavour = "invoice" THEN payload.amount
                     ELSE payload.event_amount)
        /\ kind \notin {"payment.capture", "PAID", "payment.failed", "EXPIRED"}
              => (call.out.ok /\ call.out.value = NotSupported)

C8_Witness ==
    /\ call.op = "getWebhookActionAndData"
    /\ flavour = "request"
    /\ Structured(flavour, call.payload)
    /\ call.payload.event = "payment.failed"
    /\ call.out.ok
    /\ call.out.value.action = "FAILED"
    /\ call.out.value.data.session_id = "pi_1"

-----------------------------------------------------------------------------
(* The error handler of the gateway client on its own *)

ErrorStatuses == {400, 401, 403, 404, 429, 500, 503}

\* the retry-after header; undefined: the response has none
RetryAfters == {undefined, "30", "60"}

\* the error responses that handleApiError is called with
ErrorResponses ==
    { [ NoFault EXCEPT !.kind = "http", !.status = st, !.json = js,
                       !.error_code = code, !.retry_after = ra ] :
        st \in ErrorStatuses, js \in BOOLEAN, code \in ErrorCodes,
        ra \in RetryAfters }

\* a response is one the gateway sends: only a 429 carries retry-after, only
\* a body that parses carries an error code
Sendable(resp) ==
    /\ resp.status # 429 => resp.retry_after = undefined
    /\ ~resp.json => resp.error_code = undefined

\* handleApiError(response) of the registered variant
HandleApiError ==
    \E resp \in ErrorResponses :
        /\ Sendable(resp)
        /\ call' = [ op |-> "handleApiError", resp |-> resp,
                     error |-> IF flavour = "legacy"
                               THEN handleApiError_part_001(resp)
                               ELSE handleApiError(resp) ]
        /\ UNCHANGED <<flavour, env, options, inflight, http, gateway, clock>>

\* error codes that report a failed authentication
AuthenticationCodes == {"INVALID_API_KEY"}

\* C11: a non-2xx, non-429 response with a parseable error body is
\* categorised: every status >= 500 as UpstreamUnavailable (UNEXPECTED_STATE)
\* and every 404 as NotFound, whatever the error code; otherwise 401 or an
\* authentication error code as Unauthorized; otherwise (400, a validation
\* code, any other status) as InvalidRequest (INVALID_DATA).
C11_ErrorCategories ==
    (call.op = "handleApiError" /\ call.resp.status # 429 /\ call.resp.json)
    =>
    LET statusCode == call.resp.status
        errorCode == call.resp.error_code
    IN  call.error.type =
            IF statusCode >= 500 THEN "UNEXPECTED_STATE"
            ELSE IF statusCode = 404 THEN "NOT_FOUND"
            ELSE IF statusCode = 401 \/ errorCode \in AuthenticationCodes
            THEN "UNAUTHORIZED"
            ELSE "INVALID_DATA"

-----------------------------------------------------------------------------
(* Claims about the errors of the facade *)

\* the operations of the payment provider
FacadeOps ==
    { "initiatePayment", "authorizePayment", "capturePayment",
      "refundPayment", "cancelPayment", "retrievePayment", "updatePayment",
      "deletePayment", "getPaymentStatus" }

\* the error says that the rate limit is exceeded and names retry-after
RateLimited(error, retryAfter) ==
    \E i \in 1..(Len(error.message) - 1) :
        /\ error.message[i] = "Xendit API rate limit exceeded. Please retry after"
        /\ error.message[i + 1] = retryAfter

\* C12: an operation (other than getPaymentStatus, which reports ERROR)
\* whose HTTP call is answered 429 with retry-after N fails with the
\* rate-limit error carrying N, and has made that one HTTP call only.
C12_RateLimited ==
    (call.op \in FacadeOps \ {"getPaymentStatus"} /\ call.resp.status = 429)
    => /\ ~call.out.ok
       /\ RateLimited(call.out.error, call.resp.retry_after)
       /\ Len(call.out.requests) = 1

\* the context that buildError puts before the message of an operation
Context(op) == "An error occurred in " \o op

\* C13: whenever an operation other than getPaymentStatus fails, the
\* message of the error it surfaces begins with the context of that
\* operation.
C13_ErrorsWrapped ==
    (call.op \in FacadeOps \ {"getPaymentStatus"} /\ ~call.out.ok)
    => Head(call.out.error.message) = Context(call.op)

-----------------------------------------------------------------------------
(* Claims about initiatePayment followed by other operations *)

\* the amounts of the round trip
RoundTripAmounts == {10000, 25000}

TerminalStatuses == {"SUCCEEDED", "PAID", "FAILED", "CANCELED", "EXPIRED"}

C15_Outcome ==
    call.op = "updatePayment" =>
        /\ call.out.requests =
              <<HttpCreate(flavour, options, call.out.requests[1].reference_id,
                           call.amount)>>
        /\ call.out.ok <=> call.resp.kind = "none"
        /\ call.out.ok =>
              /\ call.out.value.id = call.newId
              /\ call.out.value.data.amount = call.amount
              /\ call.out.value.data.status = FirstStatus(flavour)
              /\ Exists(gateway, call.newId)

\* C15: whatever the status of the original intent (not terminal, paid,
\* expired, or an id the gateway does not hold), updatePayment makes the one
\* creation call of initiatePayment, returns the snapshot of the new intent
\* exactly when that call succeeds, and leaves every other intent as it is.
C15_UpdateIsFreshInitiate ==
    /\ []C15_Outcome
    /\ [][call'.op = "updatePayment" =>
            \A id \in IntentIds \ {call'.newId} : gateway'[id] = gateway[id]]_vars

C15_Witness ==
    /\ call.op = "updatePayment"
    /\ call.original \in {"EXPIRED", "SUCCEEDED", "PAID"}
    /\ call.out.ok
    /\ call.out.value.id # call.id

\* what one cancelPayment or deletePayment call did and returned
C16_Outcome ==
    call.op \in {"cancelPayment", "deletePayment"} =>
        /\ call.out.requests =
              <<IF flavour = "invoice" THEN HttpExpire(call.id)
                ELSE HttpGet(flavour, call.id)>>
        /\ call.resp.kind = "none" =>
              /\ call.out.ok
              /\ call.out.value.data.id = call.id
              /\ call.out.value.data.status = gateway[call.id].status

\* C16: cancelPayment, and deletePayment like it, makes one HTTP call: in the
\* payment-request flavour a GET of the intent, which changes nothing at the
\* gateway; in the invoice flavour the expire call for the given invoice,
\* which changes no other intent. Answered without a fault it returns the id
\* and the status the intent then has at the gateway.
C16_Cancel ==
    /\ []C16_Outcome
    /\ [][call'.op \in {"cancelPayment", "deletePayment"} =>
            \A id \in IntentIds :
                (flavour # "invoice" \/ id # call'.id)
                    => gateway'[id] = gateway[id]]_vars

C16_Witness ==
    /\ call.op = "deletePayment"
    /\ flavour = "invoice"
    /\ call.out.requests = <<HttpExpire(call.id)>>
    /\ call.out.ok
    /\ call.out.value.data.status = "EXPIRED"

-----------------------------------------------------------------------------
(* The webhook endpoint with a container or logger that fails *)

\* req.scope.resolve("logger"): "unresolved" when resolve throws, "throws"
\* when the logger it returns throws on every call
Loggers == {"ok", "throws", "unresolved"}

\* the requests of the endpoint steps: every shape the routes tell apart
EndpointRequests ==
    { req \in Requests :
        /\ req.status \in {undefined, "PAID"}
        /\ req.data = Truthy(req.event)
        /\ req.data_id = undefined }

\* what the handler sent through res and whether an exception left it
Exchange(sent, escaped) == [sent |-> sent, escaped |-> escaped]

\* the whole POST function of a route: the resolve call before the try
\* block, the try block, and the catch block, which logs before it sends
POST_function(variant, req, webhookToken, logger) ==
    IF logger = "unresolved" THEN Exchange(<<>>, TRUE)
    \* the first logger.info (or the payload read before it) throws inside
    \* try, and logger.error throws inside catch before res.status(500)
    ELSE IF logger = "throws" THEN Exchange(<<>>, TRUE)
    ELSE Exchange(<<(IF variant = "invoice" THEN POST(req, webhookToken)
                     ELSE POST_part_003(req, webhookToken)).status>>, FALSE)

\* the GET function of a route: it resolves and logs nothing
GET_function == Exchange(<<GET.status>>, FALSE)

ServePOST ==
    \E variant \in RouteVariants, req \in EndpointRequests, logger \in Loggers :
        /\ http' = [ method |-> "POST", variant |-> variant, req |-> req,
                     logger |-> logger,
                     res |-> POST_function(variant, req, env, logger) ]
        /\ UNCHANGED <<flavour, env, options, inflight, gateway, call, clock>>

ServeGET ==
    \E variant \in RouteVariants, logger \in Loggers :
        /\ http' = [ method |-> "GET", variant |-> variant, req |-> NoRequest,
                     logger |-> logger, res |-> GET_function ]
        /\ UNCHANGED <<flavour, env, options, inflight, gateway, call, clock>>

\* C17: a GET is answered 405 and a POST with one of 200, 400, 401, 500;
\* every request gets exactly one response from its handler.
C17_ExactlyOneResponse ==
    /\ http.method = "GET" => http.res.sent = <<405>>
    /\ http.method = "POST" =>
          /\ Len(http.res.sent) = 1
          /\ http.res.sent[1] \in {200, 400, 401, 500}

\* an exception is raised while the POST is handled
Raises(req, logger) == ~req.body \/ logger # "ok"

\* C18: when an exception is raised while a POST is handled (no object
\* body, the logger cannot be resolved, the logger throws), the handler
\* answers 500 and no exception leaves it.
C18_ExceptionsAnswered500 ==
    http.method = "POST" =>
        /\ ~http.res.escaped
        /\ Raises(http.req, http.logger) => http.res.sent = <<500>>

-----------------------------------------------------------------------------
(* The simulation endpoint (api/admin/xendit/simulate/route.ts) *)

\* a request to the simulation endpoint and what it meets: `body`: req.body
\* is an object; `registered`: req.scope.resolve("pp_xendit") returns the
\* provider; `paid`: the simulated gateway call succeeds
SimulateRequests ==
    [ body : BOOLEAN, invoice_id : {undefined, "", "pi_1"},
      registered : BOOLEAN, paid : BOOLEAN ]

\* XenditProviderService.isInTestMode: whether the test-mode flag is set
isInTestMode(opts) == opts.test_mode

\* XenditProviderService.simulatePayment: marks the intent as paid through
\* a simulated gateway call, which may fail
simulatePayment(invoice_id, paid) ==
    IF paid THEN Ok([id |-> invoice_id, status |-> "PAID"])
    ELSE Throw(MedusaError("INVALID_DATA", <<"Xendit API error">>))

\* the answer and whether simulatePayment was called
Simulated(status, invoked) == [status |-> status, invoked |-> invoked]

POST_simulate(req, opts) ==
    \* destructuring a body that is no object throws inside the try block
    IF ~req.body THEN Simulated(500, FALSE)
    ELSE IF ~Truthy(req.invoice_id) THEN Simulated(400, FALSE)
    ELSE IF ~req.registered THEN Simulated(500, FALSE)
    ELSE IF ~isInTestMode(opts) THEN Simulated(403, FALSE)
    ELSE IF simulatePayment(req.invoice_id, req.paid).ok
    THEN Simulated(200, TRUE)
    ELSE Simulated(500, TRUE)

\* GET reports whether simulation is available and always answers 200
GET_simulate(req, opts) == Simulated(200, FALSE)

SimulatePOST ==
    \E req \in SimulateRequests :
        /\ http' = [ method |-> "POST", variant |-> "simulate", req |-> req,
                     res |-> POST_simulate(req, options) ]
        /\ UNCHANGED <<flavour, env, options, inflight, gateway, call, clock>>

SimulateGET ==
    \E req \in SimulateRequests :
        /\ http' = [ method |-> "GET", variant |-> "simulate", req |-> req,
                     res |-> GET_simulate(req, options) ]
        /\ UNCHANGED <<flavour, env, options, inflight, gateway, call, clock>>

\* C19: while the test-mode flag is off every POST to the simulation
\* endpoint is answered 403, and simulatePayment is not called.
C19_SimulationRefused ==
    (http.method = "POST" /\ http.variant = "simulate" /\ ~options.test_mode)
    => (http.res.status = 403 /\ ~http.res.invoked)

-----------------------------------------------------------------------------
(* The webhook endpoint and the provider option webhook_token *)

\* the environment of the process changes while it runs
SetEnv ==
    \E token \in Tokens :
        /\ token # env
        /\ env' = token
        /\ UNCHANGED <<flavour, options, inflight, http, gateway, call, clock>>

\* C20: when the provider option webhook_token is configured, a webhook POST
\* (with an object body, handled with a working logger) whose
\* x-callback-token header is missing or differs from that option is
\* answered 401.
C20_VerifiedAgainstOption ==
    ( /\ http.method = "POST" /\ http.logger = "ok" /\ http.req.body
      /\ Truthy(options.webhook_token)
      /\ http.req.callbackToken # options.webhook_token )
    => http.res.sent = <<401>>

-----------------------------------------------------------------------------
(* Construction and the provider options, as steps and in the claims *)

Construct ==
    /\ call' = [op |-> "constructor", out |-> constructor(flavour, options)]
    /\ UNCHANGED <<flavour, env, options, inflight, http, gateway, clock>>

ValidateOptions ==
    /\ call' = [ op |-> "validateOptions",
                 out |-> validateOptions(flavour, options) ]
    /\ UNCHANGED <<flavour, env, options, inflight, http, gateway, clock>>

\* C21: the creation call of initiatePayment carries the capture method
\* configured as default_capture_method (AUTOMATIC when it is not set) and
\* goes to the base URL configured as api_url (https://api.xendit.co when
\* it is not set).  An invoice has no capture method, so that half is asked
\* of the payment-request variants only.
C21_ConfiguredCaptureAndUrl ==
    call.op = "initiatePayment" =>
        /\ flavour # "invoice" =>
              call.out.requests[1].capture_method =
                ( IF Truthy(options.default_capture_method)
                  THEN options.default_capture_method ELSE "AUTOMATIC" )
        /\ call.out.requests[1].url =
              ( IF Truthy(options.api_url)
                THEN options.api_url ELSE "https://api.xendit.co" )

\* C22: construction and validateOptions fail, with an invalid-argument
\* error, exactly when api_key is missing or empty; without a
\* default_country the provider is constructed all the same and the
\* payments it creates carry the country ID.
C22_OnlyApiKeyRequired ==
    /\ call.op \in {"constructor", "validateOptions"} =>
          /\ call.out.ok <=> Truthy(options.api_key)
          /\ ~call.out.ok => call.out.error.type = "INVALID_ARGUMENT"
    /\ (call.op = "initiatePayment" /\ ~Truthy(options.default_country)) =>
          call.out.requests[1].country = "ID"

-----------------------------------------------------------------------------
(* The operations that only read *)

ReadOnlyOps ==
    {"retrievePayment", "getPaymentStatus", "authorizePayment", "capturePayment"}

\* C23: retrievePayment, getPaymentStatus, authorizePayment and
\* capturePayment each make exactly one call, the GET of the given id, and
\* leave the gateway's state of every intent as it was, whether they
\* succeed or fail.
C23_ReadOnly ==
    /\ [](call.op \in ReadOnlyOps =>
            call.out.requests = <<HttpGet(flavour, call.id)>>)
    /\ [][call'.op \in ReadOnlyOps => gateway' = gateway]_vars

\* an authorization that succeeded on an intent that can still change
C23_Witness ==
    /\ call.op = "authorizePayment"
    /\ call.out.ok
    /\ call.out.requests = <<HttpGet(flavour, call.id)>>
    /\ Exists(gateway, call.id)
    /\ gateway[call.id].status \in NonTerminal

-----------------------------------------------------------------------------
(* Redelivery and malformed payloads at the webhook dispatcher *)

\* the delivery produced AUTHORIZED or FAILED
TerminalAction(c) ==
    /\ c.op = "getWebhookActionAndData"
    /\ c.out.ok
    /\ c.out.value.action \in {"AUTHORIZED", "FAILED"}

\* C24: once a delivery has produced a terminal action (AUTHORIZED or
\* FAILED) for an intent, a later delivery for the same intent, redelivered
\* or out of order, does not produce a different terminal action.  The
\* dispatcher keeps nothing between deliveries, so every pair of deliveries
\* is a pair of consecutive ones.
C24_TerminalActionStays ==
    [][ ( /\ TerminalAction(call)
          /\ TerminalAction(call')
          /\ call.out.value.data.session_id # undefined
          /\ call'.out.value.data.session_id = call.out.value.data.session_id )
        => call'.out.value.action = call.out.value.action ]_vars

\* C25: getWebhookActionAndData never throws; a payload whose data is
\* absent, or that lacks the discriminator or the identifying field, is
\* answered with NOT_SUPPORTED.
C25_MalformedNotSupported ==
    call.op = "getWebhookActionAndData" =>
        /\ call.out.ok
        /\ ( \/ ~Structured(flavour, call.payload)
             \/ Discriminator(flavour, call.payload) = undefined )
           => call.out.value = NotSupported

-----------------------------------------------------------------------------
(* The reference ids of refunds *)

\* C26: every refund creation call carries a reference id of its own: two
\* refundPayment calls, those for the same intent id in the same
\* millisecond included, do not send the same reference_id.  refundPayment
\* keeps nothing between calls, so every pair of calls is a pair of
\* consecutive ones.
C26_UniqueRefundReferenceIds ==
    [][ (call.op = "refundPayment" /\ call'.op = "refundPayment")
        => call'.out.requests[1].reference_id
              # call.out.requests[1].reference_id ]_vars

-----------------------------------------------------------------------------
(* Calls handled side by side *)

\* at most this many calls are being handled at a time
MaxInFlight == 2

Slots == 1..MaxInFlight

SlotIdle == [pc |-> "idle"]

\* the facade operations that wait for the gateway, and what the gateway
\* does to a call handled side by side with others
AwaitingOps == {"authorizePayment", "cancelPayment", "initiatePayment"}

ConcurrentFaults == {NoFault, ErrorAnswer(500, "SERVER_ERROR")}

\* the webhook requests that arrive meanwhile: without a token, with and
\* without the fields of a notification
ConcurrentRequests ==
    { req \in EndpointRequests :
        /\ req.callbackToken = undefined
        /\ req.body
        /\ (req.id = undefined) = (req.status = undefined)
        /\ (req.id = undefined) = (req.event = undefined) }

\* one request handled from its arguments against the gateway as it is when
\* the gateway serves it; a webhook POST goes to the route of the API style
Handle(fl, opts, webhookToken, op, args, g) ==
    CASE op = "POST" ->
            Made(Ok(IF fl = "invoice" THEN POST(args.req, webhookToken)
                                      ELSE POST_part_003(args.req, webhookToken)),
                 <<>>)
      [] op = "authorizePayment" ->
            IF fl = "invoice" THEN authorizePayment_invoice(args.id, g)
            ELSE authorizePayment(fl, args.id, g)
      [] op = "cancelPayment" ->
            IF fl = "invoice" THEN cancelPayment_invoice(args.id, g)
            ELSE cancelPayment(fl, args.id, g)
      [] op = "initiatePayment" ->
            initiatePayment(fl, opts, args.amount, args.now, args.random, g)

\* a call that went on with the locals of whichever call is waiting
Resume_Shared(frames, slot) ==
    frames[CHOOSE s \in Slots : frames[s].pc = "awaiting"].locals

\* after `await fetch(...)` a call goes on with its own locals
Resume(frames, slot) ==
    frames[slot].locals

\* a facade call starts: it reads its input and waits for the gateway
Begin(randoms) ==
    \E slot \in Slots, op \in AwaitingOps, id \in IntentIds,
       amount \in Amounts, random \in randoms :
        LET args == IF op = "initiatePayment"
                    THEN [amount |-> amount, now |-> clock, random |-> random]
                    ELSE [id |-> id]
        IN  /\ Constructed
            /\ inflight[slot].pc = "idle"
            /\ inflight' = [inflight EXCEPT ![slot] =
                              [ pc |-> "awaiting", op |-> op, asked |-> args,
                                locals |-> [op |-> op, args |-> args] ]]
            /\ UNCHANGED <<flavour, env, options, http, gateway, call, clock>>

\* the gateway answers a waiting call, which runs to its end
Complete ==
    \E slot \in Slots, fault \in ConcurrentFaults :
        /\ inflight[slot].pc = "awaiting"
        /\ LET frame == Resume(inflight, slot)
               g == Gateway(gateway, fault, NextIntentId(gateway),
                            FirstStatus(flavour))
               made == Handle(flavour, options, env, frame.op, frame.args, g)
           IN  /\ frame.op = "initiatePayment" => g.newId # undefined
               /\ inflight' = [inflight EXCEPT ![slot] =
                                 [ pc |-> "done", op |-> inflight[slot].op,
                                   asked |-> inflight[slot].asked,
                                   g |-> g, out |-> made ]]
               /\ gateway' = ServedAll(g, made.requests)
        /\ UNCHANGED <<flavour, env, options, http, call, clock>>

\* a webhook POST: the route does not wait for anything, it runs to its end
\* in one step
Webhook ==
    \E slot \in Slots, req \in ConcurrentRequests :
        LET g == Gateway(gateway, NoFault, undefined, undefined)
            args == [req |-> req]
        IN  /\ inflight[slot].pc = "idle"
            /\ inflight' = [inflight EXCEPT ![slot] =
                              [ pc |-> "done", op |-> "POST", asked |-> args,
                                g |-> g,
                                out |-> Handle(flavour, options, env, "POST",
                                               args, g) ]]
            /\ UNCHANGED <<flavour, env, options, http, gateway, call, clock>>

\* the caller has its response
Return ==
    \E slot \in Slots :
        /\ inflight[slot].pc = "done"
        /\ inflight' = [inflight EXCEPT ![slot] = SlotIdle]
        /\ UNCHANGED <<flavour, env, options, http, gateway, call, clock>>

-----------------------------------------------------------------------------
(* An intent id the gateway does not know *)

NotFoundOps ==
    { "retrievePayment", "authorizePayment", "capturePayment",
      "cancelPayment", "deletePayment" }

\* C28: when the gateway answers 404 for the intent id, the error that
\* retrievePayment, authorizePayment, capturePayment, cancelPayment or
\* deletePayment surfaces has the category NOT_FOUND: the wrapping with the
\* name of the operation keeps the category.
C28_NotFoundKept ==
    (call.op \in NotFoundOps /\ call.resp.kind = "http" /\ call.resp.status = 404)
    => (~call.out.ok /\ call.out.error.type = "NOT_FOUND")

-----------------------------------------------------------------------------
(* The amount of a paid invoice *)

\* C29: for the webhook of a PAID invoice the amount of the AUTHORIZED
\* result is the payload's paid_amount whenever the payload has one, 0
\* included, and the invoice amount only when paid_amount is absent.
C29_PaidAmount ==
    ( /\ call.op = "getWebhookActionAndData"
      /\ flavour = "invoice"
      /\ call.payload.data
      /\ Truthy(call.payload.id)
      /\ call.payload.status = "PAID" )
    => /\ call.out.ok
       /\ call.out.value.action = "AUTHORIZED"
       /\ call.out.value.data.amount =
             ( IF call.payload.paid_amount # NoNumber
               THEN call.payload.paid_amount ELSE call.payload.amount )

-----------------------------------------------------------------------------
(* The original intent of an update *)

\* C30: updatePayment makes exactly one call, the creation call, and no
\* call that refers to the original intent id; the gateway's state of the
\* original intent stays as it was, so that after a successful update of an
\* intent that was open to payment the original and the new intent both
\* exist and are both open to payment.
C30_OriginalUntouched ==
    /\ [](call.op = "updatePayment" =>
            /\ Len(call.out.requests) = 1
            /\ call.out.requests[1].method = "POST"
            /\ call.out.requests[1].path = CreatePath(flavour)
            /\ call.out.requests[1].id # call.id
            /\ (call.out.ok /\ call.original \in NonTerminal) =>
                  /\ call.newId # call.id
                  /\ gateway[call.id].status \in NonTerminal
                  /\ gateway[call.newId].status \in NonTerminal)
    /\ [][ (call'.op = "updatePayment" /\ Exists(gateway, call'.id))
           => gateway'[call'.id] = gateway[call'.id] ]_vars

\* a successful update of an intent that was open to payment
C30_Witness ==
    /\ call.op = "updatePayment"
    /\ call.out.ok
    /\ call.original \in NonTerminal
    /\ Exists(gateway, call.id)
    /\ Exists(gateway, call.newId)
    /\ call.newId # call.id

-----------------------------------------------------------------------------
(* Specifications *)

\* the provider options that the model follows
Options ==
    [ api_key : {undefined, "", "xnd_key"},
      api_url : {undefined, "https://staging.test"},
      default_country : {undefined, "ID", "PH"},
      default_capture_method : {undefined, "MANUAL"},
      capture_method : {undefined, "MANUAL"},
      webhook_token : Tokens \ {""},
      test_mode : BOOLEAN ]

\* the options with nothing but the key and the country set
NoOptions ==
    [ api_key |-> "xnd_key", api_url |-> undefined,
      default_country |-> "ID", default_capture_method |-> undefined,
      capture_method |-> undefined, webhook_token |-> undefined,
      test_mode |-> FALSE ]

\* the options the service reads, and those the endpoints read
ServiceOptions ==
    {o \in Options : o.webhook_token = undefined /\ ~o.test_mode}

EndpointOptions ==
    {o \in Options :
        \A f \in DOMAIN o \ {"webhook_token", "test_mode"} : o[f] = NoOptions[f]}

Init ==
    /\ flavour \in Flavours
    /\ env \in Tokens
    /\ options \in Options
    /\ http = HttpIdle
    /\ gateway = [id \in IntentIds |-> NoIntent]
    /\ call = CallIdle
    /\ clock = 0
    /\ inflight = [slot \in Slots |-> SlotIdle]

\* the webhook routes do not use the provider service
InitRoute == Init /\ flavour = "invoice" /\ options = NoOptions

\* the provider service does not read the environment
InitService == Init /\ env = undefined /\ options = NoOptions

NextRoute == HandlePOST \/ HandleGET

SpecRoute == InitRoute /\ [][NextRoute]_vars

\* the random value of the facade steps
ServiceRandoms == {[i \in 1..MaxDigits |-> "a"]}

NextService ==
    \/ ApplyMapper
    \/ GetPaymentStatus
    \/ AuthorizePayment
    \/ CapturePayment
    \/ CancelPayment
    \/ RetrievePayment
    \/ InitiatePayment(Amounts, ServiceRandoms, Faults)
    \/ RefundPayment
    \/ UpdatePayment(Amounts, ServiceRandoms, Faults)
    \/ DeletePayment
    \/ GatewayAdvance

SpecService == InitService /\ [][NextService]_vars

NextWebhook == Deliver

SpecWebhook == InitService /\ [][NextWebhook]_vars

NextErrors == HandleApiError

SpecErrors == InitService /\ [][NextErrors]_vars

NextRoundTrip ==
    \/ InitiatePayment(RoundTripAmounts, ServiceRandoms, Faults)
    \/ RetrievePayment
    \/ GatewayAdvance

SpecRoundTrip == InitService /\ [][NextRoundTrip]_vars

NextEndpoint == ServePOST \/ ServeGET

SpecEndpoint == InitRoute /\ [][NextEndpoint]_vars

\* the simulation endpoint under every setting of the provider options
InitSimulate ==
    Init /\ flavour = "invoice" /\ env = undefined /\ options \in EndpointOptions

NextSimulate == SimulatePOST \/ SimulateGET

SpecSimulate == InitSimulate /\ [][NextSimulate]_vars

\* the webhook endpoint under every setting of the provider options
InitConfig == Init /\ flavour = "invoice" /\ options \in EndpointOptions

NextConfig == ServePOST \/ ServeGET \/ SetEnv

SpecConfig == InitConfig /\ [][NextConfig]_vars

\* construction and the creation call under every setting of the options
InitProvider == Init /\ env = undefined /\ options \in ServiceOptions

NextProvider ==
    \/ Construct
    \/ ValidateOptions
    \/ InitiatePayment(Amounts, ServiceRandoms, {NoFault})
    \/ GatewayAdvance

SpecProvider == InitProvider /\ [][NextProvider]_vars

\* refunds of the intents that were created, as time passes
NextRefunds ==
    \/ InitiatePayment(Amounts, ServiceRandoms, {NoFault})
    \/ RefundPayment
    \/ GatewayAdvance
    \/ Tick

SpecRefunds == InitService /\ [][NextRefunds]_vars

\* facade calls and webhook POSTs handled side by side
NextConcurrent ==
    \/ Begin(ServiceRandoms)
    \/ Complete
    \/ Webhook
    \/ Return

SpecConcurrent == InitService /\ [][NextConcurrent]_vars

NextIds == InitiatePayment(Amounts, Randoms, {NoFault}) \/ Tick

SpecIds == InitService /\ [][NextIds]_vars

====
